---- MODULE Spec2Model ----
(***************************************************************************)
(* Wallet-App: the wallet service (services/walletService.ts) and the      *)
(* wallet screen that calls it.                                            *)
(*                                                                         *)
(* JavaScript values are records with a tag field t:                       *)
(*   null, undefined, nan, number (a reduced fraction num/den), string,    *)
(*   object (fields), array (items).                                       *)
(* A string has a form: "empty" (''), "garbage" (text that is no JSON),    *)
(* "json" (the JSON text of the value val), "mnemonic" (a phrase) or a     *)
(* symbolic encoding produced by the key derivation.                       *)
(* Hashes and encodings of the derivation pipeline are free terms: two     *)
(* terms are equal exactly when they are built the same way.               *)
(***************************************************************************)
EXTENDS Integers, Sequences, FiniteSets, TLC

VARIABLES
    storage,         \* AsyncStorage: key -> stored string, or null when absent
    wallet,          \* screen state `wallet`
    balance,         \* screen state `balance`
    transactions,    \* screen state `transactions`
    loading,         \* screen state `loading`
    balanceLoading,  \* screen state `balanceLoading`
    showImport,      \* screen state `showImport`
    mnemonicInput,   \* screen state `mnemonicInput`
    loadCall,        \* the mount-time loadExistingWallet() in flight
    createCall,      \* the handleGenerateWallet / handleImportWallet in flight
    deleteCall,      \* the confirmed handleDeleteWallet in flight
    balanceReqs,     \* addresses with a fetchBalance() in flight
    txReqs,          \* addresses with a fetchTransactions() in flight
    lastCall,        \* the last storage-service call that settled: fn, arg, outcome
    lastRemote,      \* the last remote lookup that settled: fn, response, outcome
    lastStorageOp,   \* the last saveWallet ("write") or deleteWallet ("remove") whose
                     \* storage operation settled without the call failing, or "none"
    history          \* history variable: every generateWallet / importWalletFromMnemonic
                     \* call that returned a Wallet so far, when the history is kept

vars == <<storage, wallet, balance, transactions, loading, balanceLoading,
          showImport, mnemonicInput, loadCall, createCall,
          deleteCall, balanceReqs, txReqs, lastCall, lastRemote, lastStorageOp,
          history>>

screenVars == <<wallet, balance, transactions, loading, balanceLoading,
                showImport, mnemonicInput>>

(***************************************************************************)
(* Bounds                                                                  *)
(***************************************************************************)
\* number of distinct entropies the random source / the user can produce
MaxEntropy == 1
\* number of distinct satoshi amounts the remote source reports besides 0
MaxAmounts == 1

(***************************************************************************)
(* JavaScript values                                                       *)
(***************************************************************************)
Null == [t |-> "null"]
Undefined == [t |-> "undefined"]
NaN == [t |-> "nan"]
EmptyString == [t |-> "string", form |-> "empty"]
Garbage == [t |-> "string", form |-> "garbage"]
EmptyArray == [t |-> "array", items |-> <<>>]

RECURSIVE GCD(_, _)
GCD(a, b) == IF b = 0 THEN a ELSE GCD(b, a % b)

\* the number a/b (b > 0, a >= 0), reduced
Num(a, b) == LET g == GCD(a, b) IN [t |-> "number", num |-> a \div g, den |-> b \div g]

Zero == Num(0, 1)

\* ToBoolean
Truthy(v) ==
    CASE v.t = "null" -> FALSE
      [] v.t = "undefined" -> FALSE
      [] v.t = "nan" -> FALSE
      [] v.t = "string" -> v.form # "empty"
      [] v.t = "number" -> v.num # 0
      [] OTHER -> TRUE

\* ToNumber; the non-empty strings of the model are not numeric literals
ToNumber(v) ==
    CASE v.t = "number" -> v
      [] v.t = "null" -> Zero
      [] v.t = "string" /\ v.form = "empty" -> Zero
      [] OTHER -> NaN

\* v / d for a positive integer d
Divide(v, d) ==
    LET n == ToNumber(v) IN
    IF n.t = "nan" THEN NaN ELSE Num(n.num, n.den * d)

\* o.f for a value o that is neither null nor undefined
GetField(o, f) ==
    IF o.t = "object" /\ f \in DOMAIN o.fields THEN o.fields[f] ELSE Undefined

\* o?.f
OptField(o, f) ==
    IF o.t \in {"null", "undefined"} THEN Undefined ELSE GetField(o, f)

Return(v) == [threw |-> FALSE, value |-> v]
Throw(e) == [threw |-> TRUE, error |-> e]

JSONstringify(v) == [t |-> "string", form |-> "json", val |-> v]

\* JSON.parse(s): the value, or a SyntaxError
JSONparse(s) ==
    IF s.t = "string" /\ s.form = "json" THEN Return(s.val) ELSE Throw("SyntaxError")

(***************************************************************************)
(* bip39 mnemonics.  A phrase is described by what validation looks at:    *)
(* its word count, whether some word is outside the word list, whether     *)
(* its checksum bits match, and which entropy it encodes.                  *)
(***************************************************************************)
Mnemonic(n, u, c, e) ==
    [t |-> "string", form |-> "mnemonic", words |-> n, unknown |-> u, csOk |-> c, ent |-> e]

\* entropy bytes encoded by n words of 11 bits: floor(11n / 33) * 32 / 8
EntropyBytes(n) == (((n * 11) \div 33) * 32) \div 8

\* a validation that checks the words and their count but not the checksum
validateMnemonicNoChecksum(m) ==
    /\ m.t = "string" /\ m.form = "mnemonic"
    /\ m.words % 3 = 0
    /\ ~m.unknown
    /\ EntropyBytes(m.words) >= 16
    /\ EntropyBytes(m.words) <= 32
    /\ EntropyBytes(m.words) % 4 = 0

\* bip39.validateMnemonic(mnemonic): mnemonicToEntropy does not throw
validateMnemonic(m) ==
    /\ m.t = "string" /\ m.form = "mnemonic"
    /\ m.words % 3 = 0
    /\ ~m.unknown
    /\ EntropyBytes(m.words) >= 16
    /\ EntropyBytes(m.words) <= 32
    /\ EntropyBytes(m.words) % 4 = 0
    /\ m.csOk

\* bip39.generateMnemonic(): strength 128, drawn from the random source
generateMnemonic(e) == Mnemonic(12, FALSE, TRUE, e)

\* phrases the user types into the import field
TypedMnemonics ==
    {Mnemonic(12, FALSE, TRUE, e) : e \in 1..MaxEntropy}
        \cup {Mnemonic(24, FALSE, TRUE, 1)}
        \cup {Mnemonic(n, FALSE, TRUE, 1) : n \in {11, 27}}
        \cup {Mnemonic(12, TRUE, TRUE, 1), Mnemonic(12, FALSE, FALSE, 1),
              Mnemonic(24, FALSE, FALSE, 1)}

(***************************************************************************)
(* Key derivation                                                          *)
(***************************************************************************)
\* a network switch read at run time: main net once anything is stored
networkFromStorage ==
    IF \A k \in DOMAIN storage : storage[k].t = "null" THEN "testnet" ELSE "bitcoin"

\* the one network switch, set when the module loads
network == "testnet"

\* bytes are the term by(... (of)): the functions applied, in order, to a phrase,
\* the phrase given by what tells the model's mnemonics apart
Applied(f, b) == [b EXCEPT !.by = Append(@, f)]

mnemonicToSeed(m) ==
    [t |-> "bytes", by |-> <<"seed">>, of |-> <<m.words, m.unknown, m.csOk, m.ent>>]
fromSeed(seed, net) == [key |-> Applied("root", seed), network |-> net]
derivePath(root, path) == [key |-> Applied(path, root.key), network |-> root.network]
publicKeyOf(priv) == Applied("pub", priv)
toHex(b) == [t |-> "string", form |-> "hex", by |-> b.by, of |-> b.of]
p2pkh(pub, net) ==
    [t |-> "string", form |-> "p2pkh", network |-> net, by |-> pub.by, of |-> pub.of]
toWIF(priv, net) ==
    [t |-> "string", form |-> "wif", network |-> net, by |-> priv.by, of |-> priv.of]

WalletFields == {"mnemonic", "privateKey", "publicKey", "address", "wif"}

\* generateWallet, from the seed to the assembled Wallet
GenerateDerive(mnemonic) ==
    LET seed == mnemonicToSeed(mnemonic)
        root == fromSeed(seed, network)
        account == derivePath(root, "m/44'/0'/0'/0/0")
        privateKey == account.key
        publicKey == publicKeyOf(privateKey)
    IN [t |-> "object",
        fields |-> [mnemonic |-> mnemonic,
                    privateKey |-> toHex(privateKey),
                    publicKey |-> toHex(publicKey),
                    address |-> p2pkh(publicKey, network),
                    wif |-> toWIF(privateKey, network)]]

\* an import that derives along the test-net coin type 1'
ImportDeriveCoinType1(mnemonic) ==
    LET seed == mnemonicToSeed(mnemonic)
        root == fromSeed(seed, network)
        account == derivePath(root, "m/44'/1'/0'/0/0")
        privateKey == account.key
        publicKey == publicKeyOf(privateKey)
    IN [t |-> "object",
        fields |-> [mnemonic |-> mnemonic,
                    privateKey |-> toHex(privateKey),
                    publicKey |-> toHex(publicKey),
                    address |-> p2pkh(publicKey, network),
                    wif |-> toWIF(privateKey, network)]]

\* importWalletFromMnemonic, from the seed to the assembled Wallet
ImportDerive(mnemonic) ==
    LET seed == mnemonicToSeed(mnemonic)
        root == fromSeed(seed, network)
        account == derivePath(root, "m/44'/0'/0'/0/0")
        privateKey == account.key
        publicKey == publicKeyOf(privateKey)
    IN [t |-> "object",
        fields |-> [mnemonic |-> mnemonic,
                    privateKey |-> toHex(privateKey),
                    publicKey |-> toHex(publicKey),
                    address |-> p2pkh(publicKey, network),
                    wif |-> toWIF(privateKey, network)]]

DeriveFor(op, mnemonic) ==
    IF op = "generateWallet" THEN GenerateDerive(mnemonic) ELSE ImportDerive(mnemonic)

(***************************************************************************)
(* AsyncStorage                                                            *)
(***************************************************************************)
WALLET_STORAGE_KEY == "@bitcoin_wallet"
OtherKey == "@other"
Keys == {WALLET_STORAGE_KEY, OtherKey}

setItem(st, key, text) == [st EXCEPT ![key] = text]
removeItem(st, key) == [st EXCEPT ![key] = Null]
getItem(st, key) == st[key]

\* what the device may hold under the key when the app first starts: nothing,
\* or text left there that is empty, is no JSON, or is the JSON text null
ForeignContents == {Null, EmptyString, Garbage, JSONstringify(Null)}

\* a saveWallet that writes under another key
saveWalletKeyOther == OtherKey

\* saveWallet: the key and the text handed to AsyncStorage.setItem
saveWalletKey == WALLET_STORAGE_KEY
saveWalletText(w) == JSONstringify(w)

\* a saveWallet that logs a failed write and returns normally
saveWalletSwallows(ok) == Return(Undefined)

\* saveWallet after setItem settled: rethrows a failure
saveWallet(ok) == IF ok THEN Return(Undefined) ELSE Throw("StorageWriteError")

\* a create call that does not wait for saveWallet and returns the Wallet at once
createOutcomeUnawaited(saved, w) == Return(w)

\* generateWallet / importWalletFromMnemonic after saveWallet settled
createOutcome(saved, w) == IF saved.threw THEN saved ELSE Return(w)

\* a loadWallet that rethrows a failed read, as saveWallet and deleteWallet do
loadWalletRethrows(got) ==
    IF got.threw THEN got
    ELSE IF Truthy(got.value)
         THEN LET parsed == JSONparse(got.value)
              IN IF parsed.threw THEN parsed ELSE Return(parsed.value)
         ELSE Return(Null)

\* loadWallet after getItem settled with `got`
loadWallet(got) ==
    IF got.threw THEN Return(Null)
    ELSE IF Truthy(got.value)
         THEN LET parsed == JSONparse(got.value)
              IN IF parsed.threw THEN Return(Null) ELSE Return(parsed.value)
         ELSE Return(Null)

\* deleteWallet: the key handed to AsyncStorage.removeItem
deleteWalletKey == WALLET_STORAGE_KEY

\* a deleteWallet that logs a failed removal and returns normally
deleteWalletSwallows(ok) == Return(Undefined)

\* deleteWallet after removeItem settled: rethrows a failure
deleteWallet(ok) == IF ok THEN Return(Undefined) ELSE Throw("StorageRemoveError")

(***************************************************************************)
(* The remote chain-data source                                            *)
(***************************************************************************)
SatoshisPerBTC == 100000000
Limit == 10

Object1(f, v) == [t |-> "object", fields |-> [x \in {f} |-> v]]

\* a settled fetch: a transport error, or a response with its ok flag and body
TransportError == [net |-> "error"]
Response(ok, body) == [net |-> "ok", ok |-> ok, body |-> body]

\* satoshi amounts the remote source reports
Amounts == {k * 25000000 : k \in 0..MaxAmounts}

ErrorBody == JSONstringify(Object1("error", Garbage))

BalanceBodies ==
    {Garbage, JSONstringify(Null), ErrorBody, JSONstringify(Object1("balance", Garbage))}
        \cup {JSONstringify(Object1("balance", Num(a, 1))) : a \in Amounts}

BalanceResponses ==
    {TransportError, Response(FALSE, Garbage)} \cup {Response(TRUE, b) : b \in BalanceBodies}

\* a transaction record of the remote source; a larger `confirmed` is more recent
Tx(i, when) == [t |-> "object", fields |-> [hash |-> i, confirmed |-> when]]

\* n records, most recent first
RecentFirst(n) == [t |-> "array", items |-> [i \in 1..n |-> Tx(i, n + 1 - i)]]
\* two records, oldest first
OldestFirst == [t |-> "array", items |-> <<Tx(1, 1), Tx(2, 2)>>]

TxBodies ==
    {Garbage, JSONstringify(Null), ErrorBody,
     JSONstringify(Object1("txs", Num(5, 1))),
     JSONstringify(Object1("txs", OldestFirst))}
        \cup {JSONstringify(Object1("txs", RecentFirst(n))) : n \in {0, Limit, Limit + 1}}

TxResponses ==
    {TransportError, Response(FALSE, Garbage)} \cup {Response(TRUE, b) : b \in TxBodies}

\* response.json(): the parsed body, or a rejection
responseJson(resp) == JSONparse(resp.body)

\* data.f, a TypeError when data is null or undefined
Member(data, f) ==
    IF data.t \in {"null", "undefined"} THEN Throw("TypeError") ELSE Return(GetField(data, f))

\* getWalletBalance(address) once fetch settled with resp
getWalletBalance(resp) ==
    LET body ==
            IF resp.net = "error" THEN Throw("NetworkError")
            ELSE IF ~resp.ok THEN Throw("Failed to fetch balance")
            ELSE LET data == responseJson(resp)
                 IN IF data.threw THEN data
                    ELSE LET b == Member(data.value, "balance")
                         IN IF b.threw THEN b ELSE Return(Divide(b.value, SatoshisPerBTC))
    IN IF body.threw THEN Return(Zero) ELSE body

\* getTransactionHistory(address) once fetch settled with resp
getTransactionHistory(resp) ==
    LET body ==
            IF resp.net = "error" THEN Throw("NetworkError")
            ELSE IF ~resp.ok THEN Throw("Failed to fetch transactions")
            ELSE LET data == responseJson(resp)
                 IN IF data.threw THEN data
                    ELSE LET txs == Member(data.value, "txs")
                         IN IF txs.threw THEN txs
                            ELSE IF Truthy(txs.value) THEN Return(txs.value)
                                 ELSE Return(EmptyArray)
    IN IF body.threw THEN Return(EmptyArray) ELSE body

(***************************************************************************)
(* The wallet screen                                                       *)
(***************************************************************************)
NoLoad == [pc |-> "done"]
NoCreate == [pc |-> "idle"]
NoDelete == [pc |-> "idle"]
NoneYet == [fn |-> "none"]

\* entries of the call log
Call(fn, arg, outcome) == [fn |-> fn, arg |-> arg, outcome |-> outcome]
\* a load: what getItem gave, the last storage mutation before the read, the outcome
LoadLog(got, after, outcome) ==
    [fn |-> "loadWallet", arg |-> got, after |-> after, outcome |-> outcome]
\* a create: the mnemonic, the outcome, how many writes the call issued and
\* whether its write succeeded
CreateLog(fn, mnemonic, outcome, writes, persisted) ==
    [fn |-> fn, arg |-> mnemonic, outcome |-> outcome, writes |-> writes,
     persisted |-> persisted]

\* the history of create calls: whether it is kept, and for each call that
\* returned, the function, the Wallet it returned and the text it stored
NoHistory == [kept |-> FALSE, calls |-> {}]
EmptyHistory == [kept |-> TRUE, calls |-> {}]
Returned(fn, w, text) == [fn |-> fn, wallet |-> w, stored |-> text]
Remember(h, entry) == IF h.kept THEN [h EXCEPT !.calls = @ \cup {entry}] ELSE h

Init ==
    /\ storage \in {[k \in Keys |-> IF k = WALLET_STORAGE_KEY THEN c ELSE Null] :
                        c \in ForeignContents}
    /\ wallet = Null
    /\ balance = Zero
    /\ transactions = EmptyArray
    /\ loading = FALSE
    /\ balanceLoading = FALSE
    /\ showImport = FALSE
    /\ mnemonicInput = EmptyString
    /\ loadCall = [pc |-> "reading"]
    /\ createCall = NoCreate
    /\ deleteCall = NoDelete
    /\ balanceReqs = {}
    /\ txReqs = {}
    /\ lastCall = NoneYet
    /\ lastRemote = NoneYet
    /\ lastStorageOp = "none"
    /\ history = NoHistory

\* setWallet(w), and the effect on [wallet] that follows the render: when the
\* wallet has an address, fetchBalance() and fetchTransactions() are issued for it
SetWallet(w) ==
    /\ wallet' = w
    /\ IF Truthy(OptField(w, "address"))
       THEN /\ balanceLoading' = TRUE
            /\ balanceReqs' = balanceReqs \cup {GetField(w, "address")}
            /\ txReqs' = txReqs \cup {GetField(w, "address")}
       ELSE UNCHANGED <<balanceLoading, balanceReqs, txReqs>>

\* AsyncStorage.getItem of the mount-time loadWallet() settles
GetItemSettles ==
    /\ loadCall.pc = "reading"
    /\ \E ok \in BOOLEAN :
          loadCall' = [pc |-> "resolved",
                       got |-> IF ok THEN Return(getItem(storage, WALLET_STORAGE_KEY))
                               ELSE Throw("StorageReadError"),
                       after |-> lastStorageOp]
    /\ UNCHANGED <<history, storage, screenVars, createCall, deleteCall, balanceReqs, txReqs,
                   lastCall, lastRemote, lastStorageOp>>

\* loadWallet() returns and loadExistingWallet() resumes
LoadExistingWalletResumes ==
    /\ loadCall.pc = "resolved"
    /\ LET r == loadWallet(loadCall.got) IN
          /\ lastCall' = LoadLog(loadCall.got, loadCall.after, r)
          /\ IF ~r.threw /\ Truthy(r.value)
             THEN SetWallet(r.value)
             ELSE UNCHANGED <<wallet, balanceLoading, balanceReqs, txReqs>>
    /\ loadCall' = NoLoad
    /\ UNCHANGED <<history, storage, balance, transactions, loading, showImport,
                   mnemonicInput, createCall, deleteCall, lastRemote, lastStorageOp>>

\* "Generate New Wallet" pressed: handleGenerateWallet up to its first suspension
HandleGenerateWallet ==
    /\ ~Truthy(wallet) /\ ~showImport /\ ~loading
    /\ loading' = TRUE
    /\ \E e \in 1..MaxEntropy :
          createCall' = [pc |-> "seed", fn |-> "generateWallet",
                         mnemonic |-> generateMnemonic(e), writes |-> 0]
    /\ UNCHANGED <<history, storage, wallet, balance, transactions, balanceLoading, showImport, mnemonicInput, loadCall, deleteCall, balanceReqs, txReqs,
                   lastCall, lastRemote, lastStorageOp>>

\* "Import Wallet" pressed: handleImportWallet up to its first suspension, or to
\* its end when the input is empty or importWalletFromMnemonic rejects it
HandleImportWallet ==
    /\ ~Truthy(wallet) /\ showImport /\ ~loading
    /\ IF ~Truthy(mnemonicInput)
       THEN UNCHANGED <<loading, createCall, lastCall>>
       ELSE IF ~validateMnemonic(mnemonicInput)
            THEN /\ lastCall' = CreateLog("importWalletFromMnemonic", mnemonicInput,
                                          Throw("Invalid mnemonic phrase"), 0, FALSE)
                 /\ UNCHANGED <<loading, createCall>>
            ELSE /\ loading' = TRUE
                 /\ createCall' = [pc |-> "seed", fn |-> "importWalletFromMnemonic",
                                   mnemonic |-> mnemonicInput, writes |-> 0]
                 /\ UNCHANGED lastCall
    /\ UNCHANGED <<history, storage, wallet, balance, transactions, balanceLoading, showImport, mnemonicInput, loadCall, deleteCall, balanceReqs, txReqs,
                   lastRemote, lastStorageOp>>

\* mnemonicToSeed settled: the Wallet is derived and saveWallet hands it to setItem
DeriveAndSave ==
    /\ createCall.pc = "seed"
    /\ LET w == DeriveFor(createCall.fn, createCall.mnemonic) IN
          createCall' = [pc |-> "saving", fn |-> createCall.fn,
                         mnemonic |-> createCall.mnemonic, wallet |-> w,
                         key |-> saveWalletKey, text |-> saveWalletText(w),
                         writes |-> createCall.writes + 1]
    /\ UNCHANGED <<history, storage, screenVars, loadCall, deleteCall, balanceReqs, txReqs,
                   lastCall, lastRemote, lastStorageOp>>

\* AsyncStorage.setItem settles: the value is written, or the write fails
SetItemSettles ==
    /\ createCall.pc = "saving"
    /\ \E ok \in BOOLEAN :
          /\ createCall' = [createCall EXCEPT !.pc = IF ok THEN "written" ELSE "writeFailed"]
          /\ storage' = IF ok THEN setItem(storage, createCall.key, createCall.text)
                        ELSE storage
          /\ lastStorageOp' = IF saveWallet(ok).threw THEN lastStorageOp ELSE "write"
    /\ UNCHANGED <<history, screenVars, loadCall, deleteCall, balanceReqs, txReqs, lastCall,
                   lastRemote>>

\* saveWallet and the create call return or throw; the handler resumes
CreateHandlerResumes ==
    /\ createCall.pc \in {"written", "writeFailed"}
    /\ LET r == createOutcome(saveWallet(createCall.pc = "written"), createCall.wallet)
       IN /\ lastCall' = CreateLog(createCall.fn, createCall.mnemonic, r,
                                    createCall.writes, createCall.pc = "written")
          /\ IF r.threw
             THEN UNCHANGED <<wallet, balanceLoading, balanceReqs, txReqs>>
             ELSE SetWallet(r.value)
          /\ history' = IF r.threw THEN history
                        ELSE Remember(history,
                                      Returned(createCall.fn, r.value, createCall.text))
          /\ IF r.threw
             THEN UNCHANGED <<showImport, mnemonicInput>>
             ELSE IF createCall.fn = "generateWallet"
                  THEN UNCHANGED <<showImport, mnemonicInput>>
                  ELSE /\ showImport' = FALSE
                       /\ mnemonicInput' = EmptyString
    /\ loading' = FALSE
    /\ createCall' = NoCreate
    /\ UNCHANGED <<storage, balance, transactions, loadCall, deleteCall, lastRemote,
                   lastStorageOp>>

\* "Delete" confirmed in the dialog of handleDeleteWallet: deleteWallet() is called
ConfirmDeleteWallet ==
    /\ Truthy(wallet)
    /\ deleteCall.pc = "idle"
    /\ deleteCall' = [pc |-> "removing", key |-> deleteWalletKey]
    /\ UNCHANGED <<history, storage, screenVars, loadCall, createCall, balanceReqs, txReqs,
                   lastCall, lastRemote, lastStorageOp>>

\* AsyncStorage.removeItem settles: the key is removed, or the removal fails
RemoveItemSettles ==
    /\ deleteCall.pc = "removing"
    /\ \E ok \in BOOLEAN :
          /\ deleteCall' = [deleteCall EXCEPT !.pc = IF ok THEN "removed" ELSE "removeFailed"]
          /\ storage' = IF ok THEN removeItem(storage, deleteCall.key) ELSE storage
          /\ lastStorageOp' = IF deleteWallet(ok).threw THEN lastStorageOp ELSE "remove"
    /\ UNCHANGED <<history, screenVars, loadCall, createCall, balanceReqs, txReqs, lastCall,
                   lastRemote>>

\* deleteWallet() returns or throws; the dialog's onPress resumes
DeleteHandlerResumes ==
    /\ deleteCall.pc \in {"removed", "removeFailed"}
    /\ LET r == deleteWallet(deleteCall.pc = "removed") IN
          /\ lastCall' = Call("deleteWallet", Undefined, r)
          /\ IF r.threw
             THEN UNCHANGED <<wallet, balance, transactions>>
             ELSE /\ wallet' = Null
                  /\ balance' = Zero
                                /\ transactions' = EmptyArray
    /\ deleteCall' = NoDelete
    /\ UNCHANGED <<history, storage, loading, balanceLoading, showImport, mnemonicInput, loadCall,
                   createCall, balanceReqs, txReqs, lastRemote, lastStorageOp>>

\* "Import Existing Wallet" pressed
ShowImportPressed ==
    /\ ~Truthy(wallet) /\ ~showImport
    /\ showImport' = TRUE
    /\ UNCHANGED <<history, storage, wallet, balance, transactions, loading, balanceLoading,
                   mnemonicInput, loadCall, createCall, deleteCall,
                   balanceReqs, txReqs, lastCall, lastRemote, lastStorageOp>>

\* "Cancel" pressed in the import form
CancelImportPressed ==
    /\ ~Truthy(wallet) /\ showImport
    /\ showImport' = FALSE
    /\ mnemonicInput' = EmptyString
    /\ UNCHANGED <<history, storage, wallet, balance, transactions, loading, balanceLoading,
                   loadCall, createCall, deleteCall, balanceReqs, txReqs,
                   lastCall, lastRemote, lastStorageOp>>

\* the user edits the import field
MnemonicTyped ==
    /\ ~Truthy(wallet) /\ showImport
    /\ \E m \in TypedMnemonics \cup {EmptyString} :
          /\ m # mnemonicInput
          /\ mnemonicInput' = m
    /\ UNCHANGED <<history, storage, wallet, balance, transactions, loading, balanceLoading,
                   showImport, loadCall, createCall, deleteCall, balanceReqs,
                   txReqs, lastCall, lastRemote, lastStorageOp>>


\* "Refresh" pressed: fetchBalance() for the wallet on screen
RefreshPressed ==
    /\ Truthy(wallet) /\ ~balanceLoading
    /\ Truthy(OptField(wallet, "address"))
    /\ balanceLoading' = TRUE
    /\ balanceReqs' = balanceReqs \cup {GetField(wallet, "address")}
    /\ UNCHANGED <<history, storage, wallet, balance, transactions, loading, showImport, mnemonicInput, loadCall, createCall, deleteCall, txReqs,
                   lastCall, lastRemote, lastStorageOp>>

\* the fetch of a getWalletBalance(address) settles and fetchBalance() resumes
BalanceSettles ==
    /\ \E address \in balanceReqs, resp \in BalanceResponses :
          LET r == getWalletBalance(resp) IN
          /\ lastRemote' = [fn |-> "getWalletBalance", resp |-> resp, outcome |-> r]
          /\ balance' = IF r.threw THEN balance ELSE r.value
          /\ balanceReqs' = balanceReqs \ {address}
    /\ balanceLoading' = FALSE
    /\ UNCHANGED <<history, storage, wallet, transactions, loading, showImport,
                   mnemonicInput, loadCall, createCall, deleteCall, txReqs, lastCall,
                   lastStorageOp>>

\* the fetch of a getTransactionHistory(address) settles and fetchTransactions() resumes
HistorySettles ==
    /\ \E address \in txReqs, resp \in TxResponses :
          LET r == getTransactionHistory(resp) IN
          /\ lastRemote' = [fn |-> "getTransactionHistory", resp |-> resp, outcome |-> r]
          /\ transactions' = IF r.threw THEN transactions ELSE r.value
          /\ txReqs' = txReqs \ {address}
    /\ UNCHANGED <<history, storage, wallet, balance, loading, balanceLoading, showImport, mnemonicInput, loadCall, createCall, deleteCall,
                   balanceReqs, lastCall, lastStorageOp>>

\* the app is closed and opened again: the screen mounts anew over the same storage
AppRestarts ==
    /\ wallet' = Null
    /\ balance' = Zero
    /\ transactions' = EmptyArray
    /\ loading' = FALSE
    /\ balanceLoading' = FALSE
    /\ showImport' = FALSE
    /\ mnemonicInput' = EmptyString
    /\ loadCall' = [pc |-> "reading"]
    /\ createCall' = NoCreate
    /\ deleteCall' = NoDelete
    /\ balanceReqs' = {}
    /\ txReqs' = {}
    /\ lastCall' = NoneYet
    /\ lastRemote' = NoneYet
    /\ UNCHANGED <<history, storage, lastStorageOp>>

Next ==
    \/ GetItemSettles
    \/ LoadExistingWalletResumes
    \/ HandleGenerateWallet
    \/ HandleImportWallet
    \/ DeriveAndSave
    \/ SetItemSettles
    \/ CreateHandlerResumes
    \/ ConfirmDeleteWallet
    \/ RemoveItemSettles
    \/ DeleteHandlerResumes
    \/ ShowImportPressed
    \/ CancelImportPressed
    \/ MnemonicTyped
    \/ AppRestarts

\* The wallet lifecycle: storage, the screen's wallet and the calls that change
\* them.  The remote lookups issued for a wallet stay in flight here; they settle
\* under RemoteSpec.  No lifecycle action reads what a settled lookup writes
\* (balance, transactions, balanceLoading).
Spec == Init /\ [][Next]_vars

\* The screen after the mount-time load found a stored Wallet: the wallet is on
\* screen and its two lookups are in flight
RemoteInit ==
    /\ \E m \in {x \in TypedMnemonics : validateMnemonic(x)} :
          LET w == ImportDerive(m)
              text == saveWalletText(w)
          IN /\ storage = [k \in Keys |-> IF k = saveWalletKey THEN text ELSE Null]
             /\ wallet = w
             /\ balanceReqs = {GetField(w, "address")}
             /\ txReqs = {GetField(w, "address")}
             /\ lastCall = LoadLog(Return(text), "write", loadWallet(Return(text)))
    /\ balance = Zero
    /\ transactions = EmptyArray
    /\ loading = FALSE
    /\ balanceLoading = TRUE
    /\ showImport = FALSE
    /\ mnemonicInput = EmptyString
    /\ loadCall = NoLoad
    /\ createCall = NoCreate
    /\ deleteCall = NoDelete
    /\ lastRemote = NoneYet
    /\ lastStorageOp = "write"
    /\ history = NoHistory

RemoteNext ==
    \/ RefreshPressed
    \/ BalanceSettles
    \/ HistorySettles

\* The remote lookups of a resident wallet, over every response of the remote source
RemoteSpec == RemoteInit /\ [][RemoteNext]_vars

FetchNext ==
    \/ RefreshPressed
    \/ BalanceSettles
    \/ HistorySettles
    \/ ConfirmDeleteWallet
    \/ RemoveItemSettles
    \/ DeleteHandlerResumes
    \/ HandleGenerateWallet
    \/ DeriveAndSave
    \/ SetItemSettles
    \/ CreateHandlerResumes

\* The remote lookups of a resident wallet while the wallet is deleted and
\* replaced by a generated one: responses settle in any order, before or after
\* the handlers that change the screen's wallet
FetchSpec == RemoteInit /\ [][FetchNext]_vars

\* phrases typed to recover a wallet: the 12-word phrases generateWallet hands
\* out, and one of them mistyped so that its checksum fails
RecoveryPhrases ==
    {generateMnemonic(e) : e \in 1..MaxEntropy} \cup {Mnemonic(12, FALSE, FALSE, 1)}

\* the user types a recovery phrase into the import field
RecoveryPhraseTyped ==
    /\ ~Truthy(wallet) /\ showImport
    /\ \E m \in RecoveryPhrases :
          /\ m # mnemonicInput
          /\ mnemonicInput' = m
    /\ UNCHANGED <<history, storage, wallet, balance, transactions, loading,
                   balanceLoading, showImport, loadCall, createCall, deleteCall,
                   balanceReqs, txReqs, lastCall, lastRemote, lastStorageOp>>

\* the app at its first start, with the history of create calls kept
RecoveryInit ==
    /\ storage \in {[k \in Keys |-> IF k = WALLET_STORAGE_KEY THEN c ELSE Null] :
                        c \in ForeignContents}
    /\ wallet = Null
    /\ balance = Zero
    /\ transactions = EmptyArray
    /\ loading = FALSE
    /\ balanceLoading = FALSE
    /\ showImport = FALSE
    /\ mnemonicInput = EmptyString
    /\ loadCall = [pc |-> "reading"]
    /\ createCall = NoCreate
    /\ deleteCall = NoDelete
    /\ balanceReqs = {}
    /\ txReqs = {}
    /\ lastCall = NoneYet
    /\ lastRemote = NoneYet
    /\ lastStorageOp = "none"
    /\ history = EmptyHistory

RecoveryNext ==
    \/ GetItemSettles
    \/ LoadExistingWalletResumes
    \/ HandleGenerateWallet
    \/ HandleImportWallet
    \/ DeriveAndSave
    \/ SetItemSettles
    \/ CreateHandlerResumes
    \/ ConfirmDeleteWallet
    \/ RemoveItemSettles
    \/ DeleteHandlerResumes
    \/ ShowImportPressed
    \/ CancelImportPressed
    \/ RecoveryPhraseTyped
    \/ AppRestarts

\* The wallet lifecycle with generated wallets recovered from their phrases: every
\* create call that returns is remembered, so that calls made at different times,
\* over different storage contents, can be compared
RecoverySpec == RecoveryInit /\ [][RecoveryNext]_vars

(***************************************************************************)
(* Properties                                                              *)
(***************************************************************************)
Creates == {"generateWallet", "importWalletFromMnemonic"}

\* the stored record, as a value: what JSON.parse makes of the text under the key
StoredRecord == JSONparse(storage[WALLET_STORAGE_KEY])

IsWalletText(s) == s.t = "string" /\ s.form = "json" /\ s.val.t = "object"

\* the create call returned a Wallet and nothing changed storage after its write
CreateReturnedLast ==
    /\ createCall.pc = "idle"
    /\ lastCall.fn \in Creates
    /\ ~lastCall.outcome.threw
    /\ lastStorageOp = "write"

\* C1: storage holds a record under the one fixed key only, and after a successful
\* generateWallet or importWalletFromMnemonic (its write done, and until storage is
\* changed again) the stored record is exactly the Wallet the call returns: the
\* same five fields, nothing of an earlier record
C1_SingleRecordOverwritten ==
    /\ \A k \in Keys \ {WALLET_STORAGE_KEY} : storage[k] = Null
    /\ (createCall.pc = "written" /\ lastStorageOp = "write") =>
          /\ storage[WALLET_STORAGE_KEY] = JSONstringify(createCall.wallet)
          /\ createOutcome(saveWallet(TRUE), createCall.wallet) = StoredRecord
    /\ CreateReturnedLast =>
          /\ StoredRecord = lastCall.outcome
          /\ DOMAIN StoredRecord.value.fields = WalletFields

\* a create returned while the mount-time load still holds the different record
\* it read before the write: that earlier record was overwritten
C1_Witness ==
    /\ CreateReturnedLast
    /\ loadCall.pc = "resolved"
    /\ ~loadCall.got.threw
    /\ IsWalletText(loadCall.got.value)
    /\ loadCall.got.value # storage[WALLET_STORAGE_KEY]

\* a mnemonic with a word outside the list, or whose checksum does not match
BadWordOrChecksum(m) == m.t = "string" /\ m.form = "mnemonic" /\ (m.unknown \/ ~m.csOk)

\* C2: importWalletFromMnemonic of a mnemonic with a word outside the list or a
\* wrong checksum throws 'Invalid mnemonic phrase' to its caller; such a call
\* never gets to derive or to write, and no record with such a mnemonic is stored
C2_InvalidMnemonicRejected ==
    /\ (lastCall.fn = "importWalletFromMnemonic" /\ BadWordOrChecksum(lastCall.arg)) =>
          /\ lastCall.outcome = Throw("Invalid mnemonic phrase")
          /\ lastCall.writes = 0
          /\ ~lastCall.persisted
    /\ createCall.pc # "idle" => ~BadWordOrChecksum(createCall.mnemonic)
    /\ IsWalletText(storage[WALLET_STORAGE_KEY]) =>
          ~BadWordOrChecksum(StoredRecord.value.fields.mnemonic)

\* an import with a wrong checksum was rejected while a record was stored
C2_Witness ==
    /\ lastCall.fn = "importWalletFromMnemonic"
    /\ ~lastCall.arg.csOk
    /\ lastCall.outcome.threw
    /\ IsWalletText(storage[WALLET_STORAGE_KEY])

\* C3: a generateWallet or importWalletFromMnemonic whose storage write failed
\* throws; one that returns a Wallet had its write succeed
C3_WriteFailurePropagates ==
    lastCall.fn \in Creates =>
        /\ (lastCall.writes > 0 /\ ~lastCall.persisted) => lastCall.outcome.threw
        /\ ~lastCall.outcome.threw => lastCall.persisted

\* a generateWallet failed on its write
C3_Witness ==
    /\ lastCall.fn = "generateWallet"
    /\ lastCall.writes = 1
    /\ ~lastCall.persisted
    /\ lastCall.outcome.threw

\* a Wallet with exactly the five fields, as one of the two pipelines derives it
IsDerivedWallet(w) ==
    /\ w.t = "object"
    /\ DOMAIN w.fields = WalletFields
    /\ validateMnemonic(w.fields.mnemonic)
    /\ w \in {GenerateDerive(w.fields.mnemonic), ImportDerive(w.fields.mnemonic)}

C4_State ==
    /\ createCall.pc = "seed" => createCall.writes = 0
    /\ createCall.pc \in {"saving", "written", "writeFailed"} =>
          /\ createCall.writes = 1
          /\ IsDerivedWallet(createCall.wallet)
          /\ createCall.text = JSONstringify(createCall.wallet)
    /\ (lastCall.fn \in Creates /\ ~lastCall.outcome.threw) =>
          /\ lastCall.writes = 1
          /\ lastCall.persisted
          /\ IsDerivedWallet(lastCall.outcome.value)
    /\ (lastCall.fn \in Creates /\ lastCall.outcome.threw) => lastCall.writes <= 1
    /\ IsWalletText(storage[WALLET_STORAGE_KEY]) => IsDerivedWallet(StoredRecord.value)
    /\ Truthy(wallet) => IsDerivedWallet(wallet)

C4_Step ==
    /\ (storage' # storage /\ storage'[WALLET_STORAGE_KEY] # Null) =>
          /\ createCall.pc = "saving"
          /\ storage' = setItem(storage, WALLET_STORAGE_KEY, JSONstringify(createCall.wallet))
    /\ (wallet' # wallet /\ Truthy(wallet')) =>
          \/ /\ createCall.pc = "written"
             /\ lastCall'.fn \in Creates
             /\ wallet' = createCall.wallet
          \/ /\ loadCall.pc = "resolved"
             /\ lastCall'.fn = "loadWallet"
             /\ wallet' = JSONparse(loadCall.got.value).value

\* C4: a create call issues no write before the whole Wallet is derived and exactly
\* one after; storage only ever changes to the text of that whole Wallet; the
\* screen takes a new wallet only from a create whose write succeeded (or from the
\* mount-time load of the stored record); a create that failed leaves the screen's
\* wallet alone; neither storage nor the screen ever holds a partial Wallet
C4_LogicalTransaction == []C4_State /\ [][C4_Step]_vars

\* the screen holds the Wallet a generateWallet returned after its one write
C4_Witness ==
    /\ lastCall.fn = "generateWallet"
    /\ ~lastCall.outcome.threw
    /\ lastCall.writes = 1
    /\ wallet = lastCall.outcome.value
    /\ storage[WALLET_STORAGE_KEY] = JSONstringify(wallet)

\* loadWallet(got), as the claim has it: absent unless a value was read and parsed
LoadContract(got, outcome) ==
    /\ ~outcome.threw
    /\ IF got.threw THEN outcome.value = Null
       ELSE IF got.value = Null THEN outcome.value = Null
       ELSE IF JSONparse(got.value).threw THEN outcome.value = Null
       ELSE outcome.value # Null => outcome.value = JSONparse(got.value).value

\* C5: loadWallet never throws; it returns null when the key is absent, when the
\* read fails and when the stored text does not parse, and a value other than null
\* only when a stored text was read and parsed (and then that parsed value)
C5_LoadNeverRaises ==
    /\ lastCall.fn = "loadWallet" => LoadContract(lastCall.arg, lastCall.outcome)
    /\ loadCall.pc = "resolved" => LoadContract(loadCall.got, loadWallet(loadCall.got))

\* a load read text that is no JSON and returned null
C5_Witness ==
    /\ lastCall.fn = "loadWallet"
    /\ ~lastCall.arg.threw
    /\ lastCall.arg.value = Garbage
    /\ lastCall.outcome = Return(Null)

\* C6: once a deleteWallet completed without error and no create wrote since, the
\* key is absent and every loadWallet whose read follows returns null
C6_DeleteThenLoadAbsent ==
    /\ lastStorageOp = "remove" =>
          /\ storage[WALLET_STORAGE_KEY] = Null
          /\ \A ok \in BOOLEAN :
                loadWallet(IF ok THEN Return(getItem(storage, WALLET_STORAGE_KEY))
                           ELSE Throw("StorageReadError")) = Return(Null)
    /\ (loadCall.pc = "resolved" /\ loadCall.after = "remove") =>
          loadWallet(loadCall.got) = Return(Null)
    /\ (lastCall.fn = "loadWallet" /\ lastCall.after = "remove") =>
          lastCall.outcome = Return(Null)

\* a loadWallet read the key after a delete and returned null
C6_Witness ==
    /\ lastCall.fn = "loadWallet"
    /\ lastCall.after = "remove"
    /\ ~lastCall.arg.threw
    /\ lastCall.outcome = Return(Null)

\* a response whose body is JSON for an object with field f
HasJsonField(resp, f) ==
    /\ resp.net = "ok"
    /\ resp.ok
    /\ ~JSONparse(resp.body).threw
    /\ JSONparse(resp.body).value.t = "object"
    /\ f \in DOMAIN JSONparse(resp.body).value.fields

JsonField(resp, f) == JSONparse(resp.body).value.fields[f]

\* a 2xx response whose body carries an integer balance
WellFormedBalance(resp) ==
    /\ HasJsonField(resp, "balance")
    /\ JsonField(resp, "balance").t = "number"
    /\ JsonField(resp, "balance").den = 1

\* C7: getWalletBalance never throws; on a transport error, a non-2xx response or
\* a malformed payload (a body that does not parse or has no integer balance) it
\* returns 0, and on a well-formed response balanceSatoshis / 100000000
C7_BalanceDefaultsToZero ==
    lastRemote.fn = "getWalletBalance" =>
        /\ ~lastRemote.outcome.threw
        /\ IF WellFormedBalance(lastRemote.resp)
           THEN lastRemote.outcome.value
                    = Num(JsonField(lastRemote.resp, "balance").num, SatoshisPerBTC)
           ELSE lastRemote.outcome.value = Zero

\* a 2xx response whose body carries an array of transactions
WellFormedTxs(resp) ==
    /\ HasJsonField(resp, "txs")
    /\ JsonField(resp, "txs").t = "array"

\* C8: getTransactionHistory never throws; what it returns is always a sequence,
\* and the empty one on a transport error, a non-2xx response or a malformed payload
C8_HistoryDefaultsToEmpty ==
    lastRemote.fn = "getTransactionHistory" =>
        /\ ~lastRemote.outcome.threw
        /\ lastRemote.outcome.value.t = "array"
        /\ ~WellFormedTxs(lastRemote.resp) => lastRemote.outcome.value = EmptyArray

MostRecentFirst(items) ==
    \A i \in 1..(Len(items) - 1) :
        items[i].fields.confirmed >= items[i + 1].fields.confirmed

\* C9: a sequence returned by getTransactionHistory has at most Limit = 10 records,
\* most recent first, whatever the remote source answered
C9_HistoryCapped ==
    (lastRemote.fn = "getTransactionHistory" /\ lastRemote.outcome.value.t = "array") =>
        /\ Len(lastRemote.outcome.value.items) <= Limit
        /\ MostRecentFirst(lastRemote.outcome.value.items)

\* C10: importWalletFromMnemonic rejects every mnemonic that has not 12 words, and
\* nothing is derived or stored for one
C10_OnlyTwelveWords ==
    /\ (lastCall.fn = "importWalletFromMnemonic" /\ lastCall.arg.words # 12) =>
          /\ lastCall.outcome.threw
          /\ lastCall.writes = 0
    /\ (createCall.pc # "idle" /\ createCall.fn = "importWalletFromMnemonic") =>
          createCall.mnemonic.words = 12
    /\ IsWalletText(storage[WALLET_STORAGE_KEY]) =>
          StoredRecord.value.fields.mnemonic.words = 12

\* the four derived fields of a Wallet
DerivedFields == {"privateKey", "publicKey", "address", "wif"}

SameDerived(w1, w2) == \A f \in DerivedFields : w1.fields[f] = w2.fields[f]

Valid12(m) == validateMnemonic(m) /\ m.words = 12

\* importWalletFromMnemonic(m) calls that returned, for a valid 12-word m
ImportsOf(m) ==
    {c \in history.calls : c.fn = "importWalletFromMnemonic" /\ c.wallet.fields.mnemonic = m}

\* an importWalletFromMnemonic whose write is done and which returns next
ImportReturning ==
    /\ createCall.pc = "written"
    /\ createCall.fn = "importWalletFromMnemonic"

\* C11: any two importWalletFromMnemonic(m) calls of one valid 12-word mnemonic m
\* return the same privateKey, publicKey, address and wif, whatever storage held
\* when each ran and whatever ran between them: the calls that have returned
\* agree with each other, and the call about to return agrees with all of them
C11_ImportDeterministic ==
    /\ \A a, b \in history.calls :
          (/\ a.fn = "importWalletFromMnemonic"
           /\ Valid12(a.wallet.fields.mnemonic)
           /\ b \in ImportsOf(a.wallet.fields.mnemonic)) => SameDerived(a.wallet, b.wallet)
    /\ (ImportReturning /\ Valid12(createCall.mnemonic)) =>
          \A a \in ImportsOf(createCall.mnemonic) :
              SameDerived(a.wallet,
                          createOutcome(saveWallet(TRUE), createCall.wallet).value)

\* a second import of a mnemonic is about to return; the first one ran over
\* other storage contents and its record has been deleted since
C11_Witness ==
    /\ ImportReturning
    /\ Valid12(createCall.mnemonic)
    /\ ImportsOf(createCall.mnemonic) # {}
    /\ lastCall.fn = "deleteWallet"
    /\ ~lastCall.outcome.threw

\* generateWallet calls that returned
Generated == {c \in history.calls : c.fn = "generateWallet"}

\* the last call to settle was importWalletFromMnemonic(m)
ImportSettled(m) == lastCall.fn = "importWalletFromMnemonic" /\ lastCall.arg = m

\* the imports of g's mnemonic that returned gave g's Wallet, in all five fields,
\* and stored the text the generate stored
RecoversSame(g) ==
    /\ ImportSettled(g.wallet.fields.mnemonic) =>
          (~lastCall.outcome.threw => lastCall.outcome.value = g.wallet)
    /\ \A i \in ImportsOf(g.wallet.fields.mnemonic) :
          /\ i.wallet = g.wallet
          /\ i.stored = g.stored

\* C12 as stated: for every Wallet w a generateWallet returned, an
\* importWalletFromMnemonic(w.mnemonic) succeeds, returns a Wallet equal to w in
\* all five fields and stores the record the generate stored
C12_RecoveryAlwaysSucceeds ==
    \A g \in Generated :
        /\ ImportSettled(g.wallet.fields.mnemonic) => ~lastCall.outcome.threw
        /\ RecoversSame(g)

\* C12, amended: for every Wallet w a generateWallet returned, an
\* importWalletFromMnemonic(w.mnemonic) is never rejected as invalid and fails
\* only when its own storage write fails; when it returns, its Wallet equals w in
\* all five fields and the record it stored equals the one the generate stored
C12_RecoveryUnlessWriteFails ==
    \A g \in Generated :
        /\ (ImportSettled(g.wallet.fields.mnemonic) /\ lastCall.outcome.threw) =>
              /\ lastCall.outcome = saveWallet(FALSE)
              /\ lastCall.writes = 1
              /\ ~lastCall.persisted
        /\ RecoversSame(g)

\* a generated wallet was deleted and then recovered from its phrase: the import
\* returned, and the stored record is again the one the generate stored
C12_Witness ==
    \E g \in Generated :
        /\ ImportSettled(g.wallet.fields.mnemonic)
        /\ ~lastCall.outcome.threw
        /\ ImportsOf(g.wallet.fields.mnemonic) # {}
        /\ storage[WALLET_STORAGE_KEY] = g.stored
        /\ wallet = g.wallet

\* no loadWallet, create or deleteWallet of the screen is in flight
Quiescent ==
    /\ loadCall.pc = "done"
    /\ createCall.pc = "idle"
    /\ deleteCall.pc = "idle"

\* the record in storage, as a read of it that succeeds gives it: null when absent
CurrentRecord == loadWallet(Return(getItem(storage, WALLET_STORAGE_KEY))).value

\* the last wallet operation to complete did not fail: a load whose read
\* succeeded, a create that returned its Wallet, a delete that returned
LastCompletedOk ==
    \/ lastCall.fn = "loadWallet" /\ ~lastCall.arg.threw
    \/ lastCall.fn \in Creates /\ ~lastCall.outcome.threw
    \/ lastCall.fn = "deleteWallet" /\ ~lastCall.outcome.threw

\* C13: once no wallet operation is in flight, the wallet the screen holds is the
\* record in storage (both absent, or the same Wallet), however the mount-time
\* load interleaved with the generate, import and delete handlers; stated for the
\* interleavings whose last operation to complete did not fail
C13_ScreenMatchesStorage ==
    (Quiescent /\ LastCompletedOk) => wallet = CurrentRecord

\* the addresses whose balance / transaction lookup settles in this step
BalanceSettledFor == balanceReqs \ balanceReqs'
TxsSettledFor == txReqs \ txReqs'

NonZeroBalance(b) == b.t = "number" /\ b.num # 0
NonEmptyList(l) == l.t = "array" /\ Len(l.items) > 0

\* while the screen holds no wallet it shows no non-zero balance and no
\* non-empty transaction list
C14_State == ~Truthy(wallet) => (~NonZeroBalance(balance) /\ ~NonEmptyList(transactions))

\* a settling lookup puts a new amount or a new list of records on screen only
\* when it was issued for the address of the wallet the screen holds
C14_Step ==
    /\ (BalanceSettledFor # {} /\ balance' # balance /\ balance'.t = "number") =>
          /\ Truthy(wallet)
          /\ BalanceSettledFor = {GetField(wallet, "address")}
    /\ (TxsSettledFor # {} /\ transactions' # transactions /\ transactions'.t = "array") =>
          /\ Truthy(wallet)
          /\ TxsSettledFor = {GetField(wallet, "address")}

\* C14: the balance and the transactions on screen come from lookups for the
\* address of the wallet the screen holds: a response to a lookup issued for an
\* earlier wallet, since deleted or replaced, never overwrites them, and never
\* sets a non-zero balance or a non-empty list while the screen holds no wallet
C14_LookupsOfCurrentWallet == []C14_State /\ [][C14_Step]_vars

====
